---- MODULE Spec2Model ----
(***************************************************************************)
(* subwoofer: audio-driven haptic pipeline (src/src/main.rs).              *)
(*                                                                         *)
(* Three contexts share the state below:                                   *)
(*   - the capture callback audio_transform_fn (lines 108-153),            *)
(*   - the dispatch task run_vibration_logic (lines 155-227),              *)
(*   - the control surface ControlPanelApp::update (lines 62-75) on the    *)
(*     main thread, whose return from eframe::run_native ends the process. *)
(*                                                                         *)
(* Numbers.  Amplitudes and thresholds are in thousandths, intensities in  *)
(* tenths, conditioned samples in ten-thousandths, so that |s| * intensity *)
(* is exact.  The mean of a batch and the command are kept as exact        *)
(* fractions [num, den].                                                   *)
(***************************************************************************)
EXTENDS Integers, Sequences, FiniteSets, TLC

\* ---- program constants ----
SAMPLE_LIMIT == 16

\* the f64 literal 1.0 of f64::min(mean_value, 1.0), in sample units
One == 10000

\* AppSettings::default()
DefaultSettings == [intensity |-> 100, delay_ms |-> 35, threshold |-> 5]

\* ---- bounds of the model ----
MaxCaptures == 18        \* capture-callback invocations in one run
MaxVaried == 2           \* the signal and the sliders move only until this many
                         \* samples are produced; after that they hold
MaxGuiUpdates == 1       \* control-surface frames that move a slider
MaxBadInputs == 1        \* rejected lines at the device prompt
MaxDevs == 2             \* audio output devices the host may list
MaxLockCaptures == 2     \* capture-callback invocations in a run of LockSpec

\* ---- input domains ----
\* slider ranges of ControlPanelApp::update, sampled
Intensities == {0, 100, 1001}
Delays == {35, 200}
Thresholds == {5, 600}
\* filtered frames (raw_values after lowpass_filter): empty, one value, two values
Frames == {<<>>, <<500>>, <<4, -500>>}

\* audio output devices the host may offer: (name, device), names as byte
\* strings ("B", "AB", "B": two devices may carry the same name)
Devices == {[id |-> 1, name |-> <<66>>],
            [id |-> 2, name |-> <<65, 66>>],
            [id |-> 3, name |-> <<66>>]}
NoDevice == [id |-> 0, name |-> <<>>]
\* what host.output_devices() may yield: up to MaxDevs devices in any order
HostLists ==
    {l \in UNION {[1..n -> Devices] : n \in 0..MaxDevs} :
        \A i, j \in 1..Len(l) : i # j => l[i].id # l[j].id}
\* lines typed at the prompt, as read by read_line; <<>> is end of input
Lines == {<<"0", "\n">>, <<" ", "1", " ", "\r", "\n">>, <<"+", "1", "\n">>,
          <<"0", "0", "1", "\n">>, <<"2", "\n">>, <<"1", "0", "\n">>,
          <<"-", "1", "\n">>, <<"1", " ", "0", "\n">>, <<"x", "\n">>,
          <<"\n">>, <<>>}

VARIABLES
    mainpc,         \* main thread: "run_native" | "exited"
    exitStatus,     \* process exit status, -1 while the process runs
    settings,       \* Arc<Mutex<AppSettings>>
    guiUpdates,     \* slider moves so far
    holders,        \* contexts holding the Settings mutex
    dpc,            \* position of run_vibration_logic
    lastOp,         \* last protocol operation called on the client
    AUDIO_STATE,    \* the OnceLock: "unset" | "set" (holds tx and settings)
    rx,             \* the Receiver: "none" | "open" | "dropped"
    chan,           \* messages queued in the mpsc channel
    collected_values, \* the batch of the current cycle
    computed_intensity, \* the command of the current cycle, a fraction
    sendErr,        \* whether a vibrate call has failed
    delay,          \* the delay_ms read for the current sleep
    disc,           \* client.disconnect(): "none" | "pending" | "ok" | "failed"
    result,         \* value returned by run_vibration_logic: "none" | "Ok" | "Err"
    diag,           \* diagnostics written to stderr
    devs,           \* the sorted Vec of select_output_dev, empty outside it
    badInputs,      \* rejected prompt lines so far
    input,          \* the line last read at the prompt
    outDev,         \* the device returned by select_output_dev
    stream,         \* the audio stream: "none" | "active" | "ended"
    cpc,            \* position of audio_transform_fn: "idle" | "locked" |
                    \* "filter" | "panicked"
    snap,           \* (intensity, threshold) copied under the lock
    frame,          \* raw_values of the current (or, when idle, the last) invocation
    seqNo,          \* samples produced so far (generation index)
    display,        \* the frame last returned to the visualizer
    received        \* generation indexes of all samples drained so far

vars == <<mainpc, exitStatus, settings, guiUpdates, holders, dpc, lastOp, AUDIO_STATE, rx,
          chan, collected_values, computed_intensity, sendErr, delay,
          disc, result, diag, devs, badInputs, input, outDev, stream, cpc, snap, frame,
          seqNo, display, received>>

mainVars == <<mainpc, exitStatus>>
guiVars == <<settings, guiUpdates, holders>>
captureVars == <<stream, cpc, snap, frame, seqNo, display>>
dispatchVars == <<dpc, lastOp, AUDIO_STATE, rx, collected_values,
                  computed_intensity, sendErr, delay, disc, result, diag,
                  devs, badInputs, input, outDev, received>>

\* ---- helpers ----
Abs(x) == IF x < 0 THEN -x ELSE x

RECURSIVE SumVals(_)
SumVals(s) == IF s = <<>> THEN 0 ELSE Head(s).val + SumVals(Tail(s))

Frac(n, d) == [num |-> n, den |-> d]
FracLess(a, b) == a.num * b.den < b.num * a.den

Alive == mainpc = "run_native"

\* ---- the mpsc channel ----
\* Live Sender handles: the only one is moved into the static AUDIO_STATE
\* (lines 171-180), and a static is never dropped.
TxCount == IF AUDIO_STATE = "set" THEN 1 ELSE 0
\* The channel is closed for the receiver when every Sender is gone.
ChanClosed == rx = "open" /\ TxCount = 0

\* (variant: the capacity check is missing)
TrySendResultUnbounded(q) == IF rx # "open" THEN "closed" ELSE "ok"

\* Sender::try_send: never waits; Closed when the Receiver is gone, Full at capacity.
TrySendResult(q) ==
    IF rx # "open" THEN "closed"
    ELSE IF Len(q) >= SAMPLE_LIMIT THEN "full"
    ELSE "ok"
\* (variant: a full queue overwrites its oldest message)
TrySendDropOldest(q, m) ==
    IF rx # "open" THEN q
    ELSE IF Len(q) >= SAMPLE_LIMIT THEN Append(Tail(q), m)
    ELSE Append(q, m)
TrySend(q, m) == IF TrySendResult(q) = "ok" THEN Append(q, m) ELSE q

\* Receiver::recv_many(buf, limit): the first min(len, limit) messages, in order.
RecvCount(q, limit) == IF Len(q) < limit THEN Len(q) ELSE limit
\* (variant: the newest message is handed out first)
RecvBatchNewestFirst(q, limit) ==
    [i \in 1..RecvCount(q, limit) |-> q[RecvCount(q, limit) + 1 - i]]
RecvBatch(q, limit) == SubSeq(q, 1, RecvCount(q, limit))
RecvRest(q, limit) == SubSeq(q, RecvCount(q, limit) + 1, Len(q))

\* ---- the signal conditioner (lines 125-130 and 138-149) ----
\* (variant: the absolute value is not taken)
GateSigned(a, threshold) == IF a < threshold THEN 0 ELSE a
Gate(a, threshold) == IF Abs(a) < threshold THEN 0 ELSE Abs(a)
VibrationValue(f, intensity, threshold) ==
    LET last == IF Len(f) = 0 THEN 0 ELSE f[Len(f)]
    IN Gate(last, threshold) * intensity
\* `as f32` and f32 arithmetic: an f32 keeps fewer significant digits than an
\* f64.  The numbers here are decimal, so the narrowing is rounding (half to
\* even) to three significant decimal digits; an f64 holds every number of
\* the model exactly, and every amplitude of Frames is an f32.
\* F32Limit is the least magnitude with more digits than an f32 keeps.
F32Limit == 1000
\* the spacing of the f32 values around a magnitude x (a power of 10; the
\* magnitudes of the model stay below 100000 * F32Limit)
Quantum(x) ==
    CASE x < F32Limit -> 1
      [] x >= F32Limit /\ x < 10 * F32Limit -> 10
      [] x >= 10 * F32Limit /\ x < 100 * F32Limit -> 100
      [] x >= 100 * F32Limit /\ x < 1000 * F32Limit -> 1000
      [] x >= 1000 * F32Limit /\ x < 10000 * F32Limit -> 10000
      [] OTHER -> 100000
\* round a magnitude to the nearest multiple of k, ties to the even multiple
RoundTo(a, k) ==
    IF 2 * (a % k) > k \/ (2 * (a % k) = k /\ (a \div k) % 2 = 1)
    THEN (a \div k + 1) * k
    ELSE (a \div k) * k
AsF32(x) == IF x < 0 THEN -RoundTo(-x, Quantum(-x)) ELSE RoundTo(x, Quantum(x))
\* (variant: the display path applies the gain to every sample, gated or not)
DisplaySampleNoGate(a, intensity, threshold) == AsF32(a * AsF32(intensity))
\* lines 140-148: the gate on |sample| as f64, the gain as `*sample *= intensity
\* as f32`, an f32 product
DisplaySample(a, intensity, threshold) ==
    IF Abs(a) < threshold THEN 0 ELSE AsF32(a * AsF32(intensity))
DisplayFrame(f, intensity, threshold) ==
    [i \in 1..Len(f) |-> DisplaySample(f[i], intensity, threshold)]

\* ---- the batch aggregator (lines 205-212) ----
\* (variant: the sum is divided by the capacity, not by the batch length)
MeanValueFixedDivisor(batch) ==
    IF Len(batch) > 0 THEN Frac(SumVals(batch), SAMPLE_LIMIT) ELSE Frac(0, 1)
MeanValue(batch) ==
    IF Len(batch) > 0 THEN Frac(SumVals(batch), Len(batch)) ELSE Frac(0, 1)
\* f64::min
FMin(a, b) == IF FracLess(b, a) THEN b ELSE a
\* (variant: the mean is sent unclamped)
ComputedIntensityUnclamped(batch) == MeanValue(batch)
ComputedIntensity(batch) == FMin(MeanValue(batch), Frac(One, 1))

Init ==
    /\ mainpc = "run_native"
    /\ exitStatus = -1
    /\ settings = DefaultSettings
    /\ guiUpdates = 0
    /\ holders = {}
    /\ dpc = "Connecting"
    /\ lastOp = "connect"
    /\ AUDIO_STATE = "unset"
    /\ rx = "none"
    /\ chan = <<>>
    /\ collected_values = <<>>
    /\ computed_intensity = Frac(0, 1)
    /\ sendErr = FALSE
    /\ delay = 0
    /\ disc = "none"
    /\ result = "none"
    /\ diag = {}
    /\ devs = <<>>
    /\ badInputs = 0
    /\ input = <<>>
    /\ outDev = NoDevice
    /\ stream = "none"
    /\ cpc = "idle"
    /\ snap = <<0, 0>>
    /\ frame = <<>>
    /\ seqNo = 0
    /\ display = <<>>
    /\ received = <<>>

\* ---- main thread and control surface ----
\* ControlPanelApp::update with a slider moved: the mutex is locked, one field
\* written, the guard dropped at the end of the closure.
GuiUpdate ==
    /\ Alive
    /\ holders = {}
    /\ guiUpdates < MaxGuiUpdates /\ seqNo < MaxVaried
    /\ \/ \E i \in Intensities \ {settings.intensity} :
              settings' = [settings EXCEPT !.intensity = i]
       \/ \E d \in Delays \ {settings.delay_ms} :
              settings' = [settings EXCEPT !.delay_ms = d]
       \/ \E t \in Thresholds \ {settings.threshold} :
              settings' = [settings EXCEPT !.threshold = t]
    /\ guiUpdates' = guiUpdates + 1
    /\ UNCHANGED <<mainVars, captureVars, dispatchVars, chan, holders>>

\* The process ends: every thread stops where it is and the memory of the
\* process (settings, channel, batch, frames) is gone.  What the outside has
\* seen stays: the protocol calls, the diagnostics, where each thread stopped.
ProcessExit(status) ==
    /\ mainpc' = "exited"
    /\ exitStatus' = status
    /\ settings' = DefaultSettings
    /\ guiUpdates' = 0
    /\ holders' = {}
    /\ chan' = <<>>
    /\ collected_values' = <<>>
    /\ computed_intensity' = Frac(0, 1)
    /\ delay' = 0
    /\ devs' = <<>>
    /\ badInputs' = 0
    /\ input' = <<>>
    /\ outDev' = NoDevice
    /\ snap' = <<0, 0>>
    /\ frame' = <<>>
    /\ seqNo' = 0
    /\ display' = <<>>
    /\ received' = <<>>
    /\ UNCHANGED <<dpc, lastOp, AUDIO_STATE, rx, sendErr, disc, result, diag,
                   stream, cpc>>

\* eframe::run_native returns Ok (window closed): main returns Ok(()).
GuiClose ==
    /\ Alive
    /\ ProcessExit(0)

\* eframe::run_native returns Err: `?` at line 99, main returns the error.
GuiError ==
    /\ Alive
    /\ ProcessExit(1)

\* ---- run_vibration_logic: start-up (lines 155-196) ----
\* `?` on a failed call: the function returns Err, main's closure logs it
\* (lines 84-86) and the worker thread ends.  Locals are dropped.
ReturnErr ==
    /\ dpc' = "Returned"
    /\ result' = "Err"
    /\ diag' = diag \cup {"Vibration logic failed"}
    /\ rx' = IF rx = "open" THEN "dropped" ELSE rx
    /\ chan' = <<>>

\* panic!/assert!/unwrap: the worker thread unwinds; the process goes on.
Panic(msg) ==
    /\ dpc' = "Panicked"
    /\ diag' = diag \cup {msg}
    /\ rx' = IF rx = "open" THEN "dropped" ELSE rx
    /\ chan' = <<>>

ConnectOk ==
    /\ Alive /\ dpc = "Connecting"
    /\ dpc' = "StartScan"
    /\ lastOp' = "start_scanning"
    /\ UNCHANGED <<mainVars, guiVars, captureVars, chan, AUDIO_STATE, rx,
                   collected_values, computed_intensity, sendErr, delay, disc,
                   result, diag, devs, badInputs, input, outDev, received>>

ConnectErr ==
    /\ Alive /\ dpc = "Connecting"
    /\ ReturnErr
    /\ UNCHANGED <<mainVars, guiVars, captureVars, lastOp, AUDIO_STATE,
                   collected_values, computed_intensity, sendErr, delay, disc,
                   devs, badInputs, input, outDev, received>>

StartScanOk ==
    /\ Alive /\ dpc = "StartScan"
    /\ dpc' = "ScanWait"
    /\ UNCHANGED <<mainVars, guiVars, captureVars, chan, lastOp, AUDIO_STATE, rx,
                   collected_values, computed_intensity, sendErr, delay, disc,
                   result, diag, devs, badInputs, input, outDev, received>>

StartScanErr ==
    /\ Alive /\ dpc = "StartScan"
    /\ ReturnErr
    /\ UNCHANGED <<mainVars, guiVars, captureVars, lastOp, AUDIO_STATE,
                   collected_values, computed_intensity, sendErr, delay, disc,
                   devs, badInputs, input, outDev, received>>

\* (variant: after the wait the device list is read without stop_scanning)
ScanWaitSkipStop ==
    /\ Alive /\ dpc = "ScanWait"
    /\ dpc' = "Devices"
    /\ UNCHANGED <<mainVars, guiVars, captureVars, chan, lastOp, AUDIO_STATE, rx,
                   collected_values, computed_intensity, sendErr, delay, disc,
                   result, diag, devs, badInputs, input, outDev, received>>

\* tokio::time::sleep(1 s) elapses, stop_scanning is called
ScanWaitDone ==
    /\ Alive /\ dpc = "ScanWait"
    /\ dpc' = "StopScan"
    /\ lastOp' = "stop_scanning"
    /\ UNCHANGED <<mainVars, guiVars, captureVars, chan, AUDIO_STATE, rx,
                   collected_values, computed_intensity, sendErr, delay, disc,
                   result, diag, devs, badInputs, input, outDev, received>>

StopScanOk ==
    /\ Alive /\ dpc = "StopScan"
    /\ dpc' = "Devices"
    /\ UNCHANGED <<mainVars, guiVars, captureVars, chan, lastOp, AUDIO_STATE, rx,
                   collected_values, computed_intensity, sendErr, delay, disc,
                   result, diag, devs, badInputs, input, outDev, received>>

StopScanErr ==
    /\ Alive /\ dpc = "StopScan"
    /\ ReturnErr
    /\ UNCHANGED <<mainVars, guiVars, captureVars, lastOp, AUDIO_STATE,
                   collected_values, computed_intensity, sendErr, delay, disc,
                   devs, badInputs, input, outDev, received>>

\* client.devices().first() is None (lines 166-168)
NoDeviceFound ==
    /\ Alive /\ dpc = "Devices"
    /\ Panic("No Buttplug device found")
    /\ UNCHANGED <<mainVars, guiVars, captureVars, lastOp, AUDIO_STATE,
                   collected_values, computed_intensity, sendErr, delay, disc,
                   result, devs, badInputs, input, outDev, received>>

\* (variant: the channel is created but AUDIO_STATE is left unset)
DeviceFoundNoState ==
    /\ Alive /\ dpc = "Devices"
    /\ rx' = "open"
    /\ chan' = <<>>
    /\ dpc' = "SelectDev"
    /\ UNCHANGED <<mainVars, guiVars, captureVars, lastOp, AUDIO_STATE, diag,
                   collected_values, computed_intensity, sendErr, delay, disc,
                   result, devs, badInputs, input, outDev, received>>

\* a device was found: the channel is created and its Sender stored in
\* AUDIO_STATE (lines 169-180); select_output_dev is entered
DeviceFound ==
    /\ Alive /\ dpc = "Devices"
    /\ IF AUDIO_STATE = "set"
       THEN /\ Panic("AUDIO_STATE was already initialized")
            /\ UNCHANGED AUDIO_STATE
       ELSE /\ AUDIO_STATE' = "set"
            /\ rx' = "open"
            /\ chan' = <<>>
            /\ dpc' = "SelectDev"
            /\ UNCHANGED diag
    /\ UNCHANGED <<mainVars, guiVars, captureVars, lastOp,
                   collected_values, computed_intensity, sendErr, delay, disc,
                   result, devs, badInputs, input, outDev, received>>

\* ---- list_output_devs and select_output_dev (lines 229-271) ----
\* String::cmp: byte-wise lexicographic order
RECURSIVE LexLess(_, _)
LexLess(a, b) ==
    IF b = <<>> THEN FALSE
    ELSE IF a = <<>> THEN TRUE
    ELSE IF Head(a) # Head(b) THEN Head(a) < Head(b)
    ELSE LexLess(Tail(a), Tail(b))

\* (variant: the list is left in the host's order)
SortKeepOrder(l) == l

\* devs.sort_by(|(n1, _), (n2, _)| n1.cmp(n2)): a stable sort by name
RECURSIVE SortByName(_)
SortByName(l) ==
    IF l = <<>> THEN <<>>
    ELSE LET front == SortByName(SubSeq(l, 1, Len(l) - 1))
             x == l[Len(l)]
             k == Cardinality({i \in 1..Len(front) :
                                  ~LexLess(x.name, front[i].name)})
         IN SubSeq(front, 1, k) \o <<x>> \o SubSeq(front, k + 1, Len(front))

\* str::trim: leading and trailing white space removed
IsSpace(c) == c \in {" ", "\t", "\r", "\n"}
RECURSIVE TrimStart(_)
TrimStart(t) == IF t # <<>> /\ IsSpace(Head(t)) THEN TrimStart(Tail(t)) ELSE t
RECURSIVE TrimEnd(_)
TrimEnd(t) ==
    IF t # <<>> /\ IsSpace(t[Len(t)]) THEN TrimEnd(SubSeq(t, 1, Len(t) - 1)) ELSE t
Trim(t) == TrimEnd(TrimStart(t))

DigitValue(c) ==
    CASE c = "0" -> 0 [] c = "1" -> 1 [] c = "2" -> 2 [] c = "3" -> 3
      [] c = "4" -> 4 [] c = "5" -> 5 [] c = "6" -> 6 [] c = "7" -> 7
      [] c = "8" -> 8 [] c = "9" -> 9 [] OTHER -> -1
RECURSIVE DecimalValue(_, _)
DecimalValue(t, acc) ==
    IF t = <<>> THEN acc
    ELSE DecimalValue(Tail(t), acc * 10 + DigitValue(Head(t)))
\* str::parse::<usize>: an optional '+', then one or more decimal digits and
\* nothing else; {n} stands for Ok(n), {} for Err.
ParseUsize(t) ==
    LET d == IF t # <<>> /\ Head(t) = "+" THEN Tail(t) ELSE t
    IN IF d = <<>> \/ \E i \in 1..Len(d) : DigitValue(d[i]) < 0
       THEN {}
       ELSE {DecimalValue(d, 0)}
\* the index accepted for a line read at the prompt (lines 263-267)
AcceptedIndex(line, n) == {index \in ParseUsize(Trim(line)) : index < n}

\* host.output_devices().unwrap() fails (line 234)
ListOutputDevsPanic ==
    /\ Alive /\ dpc = "SelectDev"
    /\ Panic("called Result::unwrap() on an Err value")
    /\ UNCHANGED <<mainVars, guiVars, captureVars, lastOp, AUDIO_STATE,
                   collected_values, computed_intensity, sendErr, delay, disc,
                   result, devs, badInputs, input, outDev, received>>

\* list_output_devs returns the host's devices sorted by name (lines 229-246)
ListOutputDevs ==
    /\ Alive /\ dpc = "SelectDev"
    /\ \E l \in HostLists : devs' = SortByName(l)
    /\ dpc' = "Listed"
    /\ UNCHANGED <<mainVars, guiVars, captureVars, chan, lastOp, AUDIO_STATE, rx,
                   collected_values, computed_intensity, sendErr, delay, disc,
                   result, diag, badInputs, input, outDev, received>>

\* assert!(!devs.is_empty(), ..) (line 250)
SelectNone ==
    /\ Alive /\ dpc = "Listed"
    /\ Len(devs) = 0
    /\ Panic("no output devices found!")
    /\ UNCHANGED <<mainVars, guiVars, captureVars, lastOp, AUDIO_STATE,
                   collected_values, computed_intensity, sendErr, delay, disc,
                   result, devs, badInputs, input, outDev, received>>

\* devs.len() == 1: devs.remove(0).1 is returned (lines 251-253)
SelectOnly ==
    /\ Alive /\ dpc = "Listed"
    /\ Len(devs) = 1
    /\ outDev' = devs[1]
    /\ devs' = <<>>
    /\ dpc' = "OpenAudio"
    /\ UNCHANGED <<mainVars, guiVars, captureVars, chan, lastOp, AUDIO_STATE, rx,
                   collected_values, computed_intensity, sendErr, delay, disc,
                   result, diag, badInputs, input, received>>

\* several devices: the list is printed and the prompt loop entered (254-258)
SelectList ==
    /\ Alive /\ dpc = "Listed"
    /\ Len(devs) > 1
    /\ dpc' = "Prompt"
    /\ UNCHANGED <<mainVars, guiVars, captureVars, chan, lastOp, AUDIO_STATE, rx,
                   collected_values, computed_intensity, sendErr, delay, disc,
                   result, diag, devs, badInputs, input, outDev, received>>

\* read_line fails, or the line is no index below devs.len(): a message is
\* printed and the prompt repeats (lines 259-262, 263-269)
PromptBad ==
    /\ Alive /\ dpc = "Prompt"
    /\ badInputs < MaxBadInputs
    /\ \/ input' = <<>>
       \/ \E line \in Lines :
            /\ AcceptedIndex(line, Len(devs)) = {}
            /\ input' = line
    /\ badInputs' = badInputs + 1
    /\ UNCHANGED <<mainVars, guiVars, captureVars, chan, dpc, lastOp, AUDIO_STATE,
                   rx, collected_values, computed_intensity, sendErr, delay, disc,
                   result, diag, devs, outDev, received>>

\* the line is an index below devs.len(): devs.remove(index).1 is returned
PromptGood ==
    /\ Alive /\ dpc = "Prompt"
    /\ \E line \in Lines :
        \E index \in AcceptedIndex(line, Len(devs)) :
            /\ input' = line
            /\ outDev' = devs[index + 1]
    /\ devs' = <<>>
    /\ dpc' = "OpenAudio"
    /\ UNCHANGED <<mainVars, guiVars, captureVars, chan, lastOp, AUDIO_STATE, rx,
                   collected_values, computed_intensity, sendErr, delay, disc,
                   result, diag, badInputs, received>>

\* default_output_config().unwrap() (line 183)
ConfigPanic ==
    /\ Alive /\ dpc = "OpenAudio"
    /\ Panic("called Result::unwrap() on an Err value")
    /\ UNCHANGED <<mainVars, guiVars, captureVars, lastOp, AUDIO_STATE,
                   collected_values, computed_intensity, sendErr, delay, disc,
                   result, devs, badInputs, input, outDev, received>>

\* default_out_dev.name()? (line 184)
NameErr ==
    /\ Alive /\ dpc = "OpenAudio"
    /\ ReturnErr
    /\ UNCHANGED <<mainVars, guiVars, captureVars, lastOp, AUDIO_STATE,
                   collected_values, computed_intensity, sendErr, delay, disc,
                   devs, badInputs, input, outDev, received>>

\* the device is moved into the visualizer task, which is spawned, and the loop
\* is entered (lines 186-199)
OpenAudio ==
    /\ Alive /\ dpc = "OpenAudio"
    /\ stream' = "active"
    /\ dpc' = "Recv"
    /\ collected_values' = <<>>
    /\ outDev' = NoDevice
    /\ input' = <<>>
    /\ badInputs' = 0
    /\ UNCHANGED <<mainVars, guiVars, chan, cpc, snap, frame, seqNo,
                   display, lastOp, AUDIO_STATE, rx,
                   computed_intensity, sendErr, delay, disc,
                   result, diag, devs, received>>

\* ---- run_vibration_logic: the dispatch loop (lines 198-221) ----
Seqs(batch) == [i \in 1..Len(batch) |-> batch[i].seq]

\* (variant: the loop exit returns without calling disconnect)
ExitLoopNoDisconnect ==
    /\ dpc' = "Returned"
    /\ lastOp' = lastOp
    /\ disc' = disc

\* break, "Disconnecting from Buttplug server.", client.disconnect() is called
ExitLoop ==
    /\ dpc' = "Disconnecting"
    /\ lastOp' = "disconnect"
    /\ disc' = "pending"

\* (variant: the receive does not wait, it takes what is queued, possibly nothing)
RecvManyPolling ==
    /\ Alive /\ dpc = "Recv"
    /\ collected_values' = RecvBatch(chan, SAMPLE_LIMIT)
    /\ chan' = RecvRest(chan, SAMPLE_LIMIT)
    /\ received' = received \o Seqs(collected_values')
    /\ computed_intensity' = ComputedIntensity(collected_values')
    /\ dpc' = "Vibrate"
    /\ lastOp' = "vibrate"
    /\ UNCHANGED <<mainVars, guiVars, captureVars, AUDIO_STATE, rx, sendErr, delay,
                   result, devs, badInputs, input, outDev, disc, diag>>

\* rx.recv_many(&mut collected_values, SAMPLE_LIMIT) completes: with 0 when the
\* channel is closed and empty (break), else with a batch whose mean is clamped
\* and passed to vibrate.
RecvMany ==
    /\ Alive /\ dpc = "Recv"
    /\ Len(chan) > 0 \/ ChanClosed
    /\ IF RecvCount(chan, SAMPLE_LIMIT) = 0
       THEN /\ ExitLoop
            /\ diag' = diag \cup {"Audio stream closed"}
            /\ UNCHANGED <<chan, collected_values, computed_intensity, received>>
       ELSE /\ collected_values' = RecvBatch(chan, SAMPLE_LIMIT)
            /\ chan' = RecvRest(chan, SAMPLE_LIMIT)
            /\ received' = received \o Seqs(collected_values')
            /\ computed_intensity' = ComputedIntensity(collected_values')
            /\ dpc' = "Vibrate"
            /\ lastOp' = "vibrate"
            /\ UNCHANGED <<disc, diag>>
    /\ UNCHANGED <<mainVars, guiVars, captureVars, AUDIO_STATE, rx, sendErr, delay,
                   result, devs, badInputs, input, outDev>>

\* (variant: the sleep uses the delay of construction, not the current one)
VibrateOkStaleDelay ==
    /\ Alive /\ dpc = "Vibrate"
    /\ holders = {}
    /\ delay' = DefaultSettings.delay_ms
    /\ dpc' = "Sleep"
    /\ UNCHANGED <<mainVars, guiVars, captureVars, chan, lastOp, AUDIO_STATE, rx,
                   collected_values, computed_intensity, sendErr, disc,
                   result, diag, devs, badInputs, input, outDev, received>>

\* vibrate returned Ok: delay_ms is read under the lock and the sleep starts
VibrateOk ==
    /\ Alive /\ dpc = "Vibrate"
    /\ holders = {}
    /\ delay' = settings.delay_ms
    /\ dpc' = "Sleep"
    /\ UNCHANGED <<mainVars, guiVars, captureVars, chan, lastOp, AUDIO_STATE, rx,
                   collected_values, computed_intensity, sendErr, disc,
                   result, diag, devs, badInputs, input, outDev, received>>

\* (variant: the failure is logged and the cycle goes on to its sleep)
VibrateErrContinue ==
    /\ Alive /\ dpc = "Vibrate"
    /\ sendErr' = TRUE
    /\ diag' = diag \cup {"Failed to send vibrate command"}
    /\ delay' = settings.delay_ms
    /\ dpc' = "Sleep"
    /\ UNCHANGED <<mainVars, guiVars, captureVars, chan, lastOp, AUDIO_STATE, rx,
                   collected_values, computed_intensity, disc,
                   result, devs, badInputs, input, outDev, received>>

\* vibrate returned Err (lines 214-217)
VibrateErr ==
    /\ Alive /\ dpc = "Vibrate"
    /\ sendErr' = TRUE
    /\ diag' = diag \cup {"Failed to send vibrate command"}
    /\ ExitLoop
    /\ UNCHANGED <<mainVars, guiVars, captureVars, chan, AUDIO_STATE, rx,
                   collected_values, computed_intensity, delay,
                   result, devs, badInputs, input, outDev, received>>

\* the sleep elapses: the iteration's locals go, the next iteration starts with a
\* fresh collected_values and awaits recv_many
SleepDone ==
    /\ Alive /\ dpc = "Sleep"
    /\ dpc' = "Recv"
    /\ collected_values' = <<>>
    /\ computed_intensity' = Frac(0, 1)
    /\ delay' = 0
    /\ UNCHANGED <<mainVars, guiVars, captureVars, chan, lastOp, AUDIO_STATE, rx,
                   sendErr, disc, result, diag, devs, badInputs, input, outDev, received>>

\* client.disconnect().await? (line 224), then Ok(()) (line 226)
DisconnectOk ==
    /\ Alive /\ dpc = "Disconnecting"
    /\ disc' = "ok"
    /\ dpc' = "Returned"
    /\ result' = "Ok"
    /\ rx' = "dropped"
    /\ chan' = <<>>
    /\ UNCHANGED <<mainVars, guiVars, captureVars, lastOp, AUDIO_STATE,
                   collected_values, computed_intensity, sendErr, delay,
                   diag, devs, badInputs, input, outDev, received>>

DisconnectErr ==
    /\ Alive /\ dpc = "Disconnecting"
    /\ disc' = "failed"
    /\ ReturnErr
    /\ UNCHANGED <<mainVars, guiVars, captureVars, lastOp, AUDIO_STATE,
                   collected_values, computed_intensity, sendErr, delay,
                   devs, badInputs, input, outDev, received>>

\* ---- audio_transform_fn (lines 108-153) ----
\* A std Mutex is poisoned when a thread panicked while holding its guard;
\* lock() then returns Err and the unwrap() at line 114 panics.
Poisoned ==
    \/ "dispatch" \in holders /\ dpc = "Panicked"
    \/ "capture" \in holders /\ cpc = "panicked"

\* (variant: the values copied are those of construction, not the current ones)
CaptureSnapshotStale ==
    /\ Alive /\ stream = "active" /\ cpc = "idle"
    /\ seqNo < MaxCaptures
    /\ holders = {} \/ Poisoned
    /\ IF AUDIO_STATE # "set" \/ Poisoned
       THEN /\ cpc' = "panicked"
            /\ UNCHANGED <<frame, snap>>
       ELSE /\ \E f \in Frames :
                /\ f = frame \/ seqNo < MaxVaried
                /\ frame' = f
            /\ snap' = <<DefaultSettings.intensity, DefaultSettings.threshold>>
            /\ cpc' = "filter"
    /\ UNCHANGED <<mainVars, guiVars, dispatchVars, chan, stream, seqNo, display>>

\* AUDIO_STATE.get().expect(..) and lock().unwrap() (a panic ends the callback
\* for good), then intensity and threshold are copied under the lock
CaptureSnapshot ==
    /\ Alive /\ stream = "active" /\ cpc = "idle"
    /\ seqNo < MaxCaptures
    /\ holders = {} \/ Poisoned
    /\ IF AUDIO_STATE # "set" \/ Poisoned
       THEN /\ cpc' = "panicked"
            /\ UNCHANGED <<frame, snap>>
       ELSE /\ \E f \in Frames :
                /\ f = frame \/ seqNo < MaxVaried
                /\ frame' = f
            /\ snap' = <<settings.intensity, settings.threshold>>
            /\ cpc' = "filter"
    /\ UNCHANGED <<mainVars, guiVars, dispatchVars, chan, stream, seqNo, display>>

\* the sample is computed and offered with try_send, the display frame returned
CaptureSend ==
    /\ Alive /\ cpc = "filter"
    /\ LET v == VibrationValue(frame, snap[1], snap[2])
           m == [seq |-> seqNo + 1, val |-> v]
       IN chan' = TrySend(chan, m)
    /\ seqNo' = seqNo + 1
    /\ display' = DisplayFrame(frame, snap[1], snap[2])
    /\ snap' = <<0, 0>>
    /\ cpc' = "idle"
    /\ UNCHANGED <<mainVars, guiVars, dispatchVars, stream, frame>>

\* the visualizer window is closed: the stream is dropped, no more callbacks
StreamEnd ==
    /\ Alive /\ stream = "active" /\ cpc = "idle"
    /\ stream' = "ended"
    /\ UNCHANGED <<mainVars, guiVars, dispatchVars, chan, cpc, snap, frame,
                   seqNo, display>>

Next ==
    \/ GuiUpdate \/ GuiClose \/ GuiError
    \/ ConnectOk \/ ConnectErr \/ StartScanOk \/ StartScanErr \/ ScanWaitDone
    \/ StopScanOk \/ StopScanErr \/ NoDeviceFound \/ DeviceFound
    \/ ListOutputDevsPanic \/ ListOutputDevs
    \/ SelectNone \/ SelectOnly \/ SelectList \/ PromptBad \/ PromptGood
    \/ ConfigPanic \/ NameErr \/ OpenAudio
    \/ RecvMany \/ VibrateOk \/ VibrateErr \/ SleepDone
    \/ DisconnectOk \/ DisconnectErr
    \/ CaptureSnapshot \/ CaptureSend \/ StreamEnd

Spec == Init /\ [][Next]_vars

\* ---- the Settings mutex in detail ----
\* LockSpec runs the same program with every lock() and every drop of a guard
\* as a step of its own; Spec above takes each critical section in one step.

\* settings.lock() at line 67 returns: the guard lives to the end of the closure
GuiLock ==
    /\ Alive
    /\ guiUpdates < MaxGuiUpdates
    /\ holders = {}
    /\ holders' = {"gui"}
    /\ UNCHANGED <<mainVars, settings, guiUpdates, captureVars, dispatchVars, chan>>

\* the sliders are drawn (lines 68-70), one of them possibly moved; the closure
\* ends and the guard is dropped
GuiWrite ==
    /\ Alive
    /\ "gui" \in holders
    /\ \/ \E i \in Intensities : settings' = [settings EXCEPT !.intensity = i]
       \/ \E d \in Delays : settings' = [settings EXCEPT !.delay_ms = d]
       \/ \E t \in Thresholds : settings' = [settings EXCEPT !.threshold = t]
    /\ guiUpdates' = guiUpdates + 1
    /\ holders' = holders \ {"gui"}
    /\ UNCHANGED <<mainVars, captureVars, dispatchVars, chan>>

\* AUDIO_STATE.get() and state.settings.lock() at lines 110-114 return
CaptureLock ==
    /\ Alive /\ stream = "active" /\ cpc = "idle"
    /\ seqNo < MaxLockCaptures
    /\ holders = {} \/ Poisoned
    /\ IF AUDIO_STATE # "set" \/ Poisoned
       THEN /\ cpc' = "panicked"
            /\ UNCHANGED <<frame, holders>>
       ELSE /\ holders' = {"capture"}
            /\ \E f \in Frames : frame' = f
            /\ cpc' = "locked"
    /\ UNCHANGED <<mainVars, settings, guiUpdates, dispatchVars, chan, stream,
                   snap, seqNo, display>>

\* (variant: the guard is bound outside the block and lives to the end of the
\* callback)
CaptureCopyKeepGuard ==
    /\ Alive /\ cpc = "locked"
    /\ snap' = <<settings.intensity, settings.threshold>>
    /\ cpc' = "filter"
    /\ UNCHANGED <<mainVars, guiVars, dispatchVars, chan, stream, frame, seqNo,
                   display>>

\* (s.intensity, s.threshold) is copied and the guard dropped at the end of the
\* block (lines 113-116)
CaptureCopy ==
    /\ Alive /\ cpc = "locked"
    /\ snap' = <<settings.intensity, settings.threshold>>
    /\ holders' = holders \ {"capture"}
    /\ cpc' = "filter"
    /\ UNCHANGED <<mainVars, settings, guiUpdates, dispatchVars, chan, stream,
                   frame, seqNo, display>>

\* vibrate returned Ok and settings.lock() at line 219 returns
DelayLock ==
    /\ Alive /\ dpc = "Vibrate"
    /\ holders = {}
    /\ holders' = {"dispatch"}
    /\ dpc' = "ReadDelay"
    /\ UNCHANGED <<mainVars, settings, guiUpdates, captureVars, chan, lastOp,
                   AUDIO_STATE, rx, collected_values, computed_intensity, sendErr,
                   delay, disc, result, diag, devs, badInputs, input, outDev, received>>

\* delay_ms is copied, the guard dropped at the end of the block (line 219) and
\* the sleep started (line 220)
DelayRead ==
    /\ Alive /\ dpc = "ReadDelay"
    /\ delay' = settings.delay_ms
    /\ holders' = holders \ {"dispatch"}
    /\ dpc' = "Sleep"
    /\ UNCHANGED <<mainVars, settings, guiUpdates, captureVars, chan, lastOp,
                   AUDIO_STATE, rx, collected_values, computed_intensity, sendErr,
                   disc, result, diag, devs, badInputs, input, outDev, received>>

NextLock ==
    \/ GuiLock \/ GuiWrite \/ GuiClose \/ GuiError
    \/ ConnectOk \/ ConnectErr \/ StartScanOk \/ StartScanErr \/ ScanWaitDone
    \/ StopScanOk \/ StopScanErr \/ NoDeviceFound \/ DeviceFound
    \/ ListOutputDevsPanic \/ ListOutputDevs
    \/ SelectNone \/ SelectOnly \/ SelectList \/ PromptBad \/ PromptGood
    \/ ConfigPanic \/ NameErr \/ OpenAudio
    \/ RecvMany \/ DelayLock \/ DelayRead \/ VibrateErr \/ SleepDone
    \/ DisconnectOk \/ DisconnectErr
    \/ CaptureLock \/ CaptureCopy \/ CaptureSend \/ StreamEnd

LockSpec == Init /\ [][NextLock]_vars

\* ======================= properties =======================
Dropped == seqNo - Len(received) - Len(chan)
LoopExited == sendErr \/ "Audio stream closed" \in diag
InLoop == dpc \in {"Recv", "Vibrate", "Sleep"}
StrictlyIncreasing(s) == \A i \in 1..(Len(s) - 1) : s[i] < s[i + 1]

\* C1: an invocation of the capture callback that has taken its snapshot can
\* always finish, whatever the dispatch task is doing, and when the channel
\* already holds SAMPLE_LIMIT samples it leaves the queue as it is (the new
\* sample is dropped) and still returns a frame of the input's length.
C1_CaptureNeverWaits ==
    /\ [](Alive /\ cpc = "filter" => ENABLED CaptureSend)
    /\ [][(cpc = "filter" /\ cpc' = "idle" /\ Len(chan) = SAMPLE_LIMIT) =>
            /\ chan' = chan
            /\ seqNo' = seqNo + 1
            /\ Len(display') = Len(frame)]_vars

\* a sample was dropped on a full queue while the dispatch task was asleep
C1_Witness ==
    /\ Alive /\ dpc = "Sleep" /\ cpc = "idle"
    /\ Len(chan) = SAMPLE_LIMIT
    /\ Dropped > 0

\* C2: the command handed to vibrate is a value in [0, 1].
C2_CommandInUnitRange ==
    (Alive /\ dpc \in {"Vibrate", "Sleep"}) =>
        /\ computed_intensity.den > 0
        /\ 0 <= computed_intensity.num
        /\ computed_intensity.num <= One * computed_intensity.den

\* a command clamped from a mean above 1.0, after a slider was moved
C2_Witness ==
    /\ dpc = "Vibrate"
    /\ guiUpdates > 0
    /\ SumVals(collected_values) > One * Len(collected_values)
    /\ computed_intensity = Frac(One, 1)

\* C4 (as claimed): once the audio stream has ended the Sender is gone, so a
\* dispatch loop waiting in recv_many can complete it and leave the loop.
C4_StreamEndClosesChannel ==
    (Alive /\ stream = "ended" /\ dpc = "Recv") =>
        (TxCount = 0 /\ ENABLED RecvMany)

\* The Sender stored in AUDIO_STATE keeps the channel open in every state.
ChannelNeverCloses == ~ChanClosed

\* C5: a failed vibrate ends the loop in the same step: disconnect is the next
\* call on the client, and from then on there is no sleep, no receive and no
\* further command.
C5_SendFailureEndsLoop ==
    /\ [][(~sendErr /\ sendErr') =>
            /\ dpc' = "Disconnecting"
            /\ lastOp' = "disconnect"
            /\ disc' = "pending"
            /\ delay' = delay]_vars
    /\ [][sendErr =>
            /\ ~InLoop'
            /\ lastOp' = "disconnect"]_vars

\* the send failed while further samples were waiting in the channel
C5_Witness ==
    /\ sendErr
    /\ dpc = "Disconnecting"
    /\ Len(chan) > 0

\* C6 (as claimed): disconnect is attempted on every loop exit and its
\* failure does not become the error result of the run.
C6_DisconnectFailureNotPropagated ==
    /\ LoopExited => disc # "none"
    /\ disc = "failed" => result # "Err"

\* C6 (amended): disconnect is attempted on every loop exit; its failure is
\* returned as the Err result of run_vibration_logic and logged by the caller,
\* and only its success gives Ok.
C6_DisconnectFailureReturned ==
    /\ LoopExited => disc # "none"
    /\ disc = "failed" =>
          (dpc = "Returned" /\ result = "Err" /\ "Vibration logic failed" \in diag)
    /\ disc = "ok" => (dpc = "Returned" /\ result = "Ok")
    /\ result = "Ok" => disc = "ok"

\* the loop was left on a send failure and the disconnect failed too
C6_Witness ==
    /\ sendErr
    /\ disc = "failed"
    /\ Alive

\* C7 (as claimed): a fatal start-up error ends the process with a non-zero
\* status.
ConnectFailed == dpc = "Returned" /\ lastOp = "connect"
NoActuator == "No Buttplug device found" \in diag
NoAudioDevice == "no output devices found!" \in diag
C7_StartupErrorEndsProcess ==
    (ConnectFailed \/ NoActuator \/ NoAudioDevice) =>
        (mainpc = "exited" /\ exitStatus # 0)

\* C8: the channel never holds more than SAMPLE_LIMIT samples and no batch is
\* longer than SAMPLE_LIMIT.
C8_ChannelAndBatchBounded ==
    /\ Len(chan) <= SAMPLE_LIMIT
    /\ Len(collected_values) <= SAMPLE_LIMIT

\* a full batch was drained and a send on a full queue had been refused
C8_Witness ==
    /\ Len(collected_values) = SAMPLE_LIMIT
    /\ Dropped > 0
    /\ Len(chan) > 0

\* C9: the samples drained so far, batch after batch, followed by those still
\* queued, carry strictly increasing generation indexes out of 1..seqNo: the
\* drained sequence is a subsequence of the produced one, in order and without
\* repetition, and the current batch is its end.
C9_DrainedInGenerationOrder ==
    LET all == received \o Seqs(chan)
        n == Len(collected_values)
    IN /\ StrictlyIncreasing(all)
       /\ \A i \in 1..Len(all) : all[i] \in 1..seqNo
       /\ n <= Len(received)
       /\ SubSeq(received, Len(received) - n + 1, Len(received)) = Seqs(collected_values)

\* two batches with a dropped sample between them
C9_Witness ==
    /\ Len(received) = SAMPLE_LIMIT + 1
    /\ received[SAMPLE_LIMIT] = SAMPLE_LIMIT
    /\ received[SAMPLE_LIMIT + 1] = SAMPLE_LIMIT + 2

\* C10: the command of a cycle with a batch of k samples, 1 <= k <= SAMPLE_LIMIT,
\* is sum/k when that is at most 1.0 and 1.0 otherwise; 16 samples of 0 give 0
\* and 16 samples of 5.0 give 1.0.
C10_CommandIsClampedMean ==
    (Alive /\ dpc = "Vibrate") =>
        LET k == Len(collected_values)
            sum == SumVals(collected_values)
            c == computed_intensity
        IN /\ k \in 1..SAMPLE_LIMIT
           /\ sum <= k * One => c.num * k = sum * c.den
           /\ sum >= k * One => c.num = One * c.den
           /\ (k = SAMPLE_LIMIT /\ \A i \in 1..k : collected_values[i].val = 0)
                 => c.num = 0
           /\ (k = SAMPLE_LIMIT /\ \A i \in 1..k : collected_values[i].val = 5 * One)
                 => c.num = One * c.den

\* scenario B: 16 frames ending in 0.5 under the default settings
C10_Witness ==
    /\ dpc = "Vibrate"
    /\ settings = DefaultSettings /\ guiUpdates = 0
    /\ Len(collected_values) = SAMPLE_LIMIT
    /\ \A i \in 1..SAMPLE_LIMIT : collected_values[i].val = 5 * One
    /\ computed_intensity = Frac(One, 1)

\* C11: the sample offered to the channel is 0 when the magnitude of the last
\* filtered value is below the snapshot's threshold and |s| * intensity
\* otherwise; it does not decrease when the intensity grows; an empty frame
\* gives 0.
LastOf(f) == IF Len(f) = 0 THEN 0 ELSE f[Len(f)]
C11_GateAndGain ==
    /\ [](cpc = "filter" =>
            \A i1, i2 \in Intensities :
                i1 <= i2 => VibrationValue(frame, i1, snap[2])
                              <= VibrationValue(frame, i2, snap[2]))
    /\ [][(cpc = "filter" /\ cpc' = "idle" /\ Len(chan') = Len(chan) + 1) =>
            LET s == LastOf(frame)
                v == chan'[Len(chan')].val
            IN /\ Abs(s) < snap[2] => v = 0
               /\ Abs(s) >= snap[2] => v = Abs(s) * snap[1]
               /\ frame = <<>> => v = 0]_vars

\* scenario C: an amplitude of 0.5 under a threshold of 0.6 is queued as 0
C11_Witness ==
    /\ seqNo = 1 /\ cpc = "idle"
    /\ frame = <<500>>
    /\ settings.threshold = 600
    /\ Len(chan) = 1 /\ chan[1].val = 0

\* C12 (as stated): after a write of intensity or threshold, the command of the
\* next dispatch cycle is computed with the new values, i.e. every sample of
\* the batch a receive hands to the mean was conditioned with the settings in
\* force at that receive.
C12_NextCommandUsesNewSettings ==
    [][(dpc = "Recv" /\ dpc' = "Vibrate") =>
        \A i \in 1..Len(collected_values') :
            collected_values'[i].val \in
                {VibrationValue(f, settings.intensity, settings.threshold) :
                    f \in Frames}]_vars

\* C12 (amended): a capture invocation copies the intensity and threshold in
\* force when it starts and conditions its sample with that copy; a write of
\* the settings changes no sample already conditioned (queued, drained or in
\* the command being sent), no copy already taken and no displayed frame.
C12_SettingsTakeEffectOnNextCapture ==
    /\ [][(cpc = "idle" /\ cpc' = "filter") =>
            snap' = <<settings.intensity, settings.threshold>>]_vars
    /\ [][(settings' # settings /\ Alive') =>
            UNCHANGED <<chan, collected_values, computed_intensity, snap,
                        frame, display>>]_vars
    /\ [][(cpc = "filter" /\ cpc' = "idle" /\ Len(chan') = Len(chan) + 1) =>
            chan'[Len(chan')].val = VibrationValue(frame, snap[1], snap[2])]_vars

\* the gain was raised from 10.0 to 100.1 between two captures of amplitude
\* 0.5: the queue holds 5.0 (old gain) followed by 50.05 (new gain)
C12_Witness ==
    /\ guiUpdates = 1 /\ settings.intensity = 1001
    /\ Len(chan) = 2
    /\ chan[1].val = 50000
    /\ chan[2].val = 500500

\* C13: a command that was sent successfully is followed by one sleep before
\* the next receive (a command is sent only after a receive, a receive is
\* started only after a sleep or on entering the loop, and a successful send
\* leads to the sleep); the sleep lasts the delay_ms read from the settings
\* after the send; a write of delay_ms during a sleep does not change it.
C13_OneSleepPerCommand ==
    /\ [][(dpc = "Vibrate" /\ dpc' # "Vibrate") =>
            /\ dpc' \in {"Sleep", "Disconnecting"}
            /\ dpc' = "Disconnecting" <=> sendErr'
            /\ dpc' = "Sleep" => delay' = settings.delay_ms]_vars
    /\ [][(dpc' = "Vibrate" /\ dpc # "Vibrate") => dpc = "Recv"]_vars
    /\ [][(dpc' = "Recv" /\ dpc # "Recv") => dpc \in {"Sleep", "OpenAudio"}]_vars
    /\ [][(dpc = "Sleep" /\ dpc' # "Sleep") => dpc' = "Recv"]_vars
    /\ [][(dpc = "Sleep" /\ dpc' = "Sleep" /\ Alive') => delay' = delay]_vars

\* the delay was moved to 200 ms while a sleep of 35 ms was in progress
C13_Witness ==
    /\ dpc = "Sleep" /\ delay = 35
    /\ settings.delay_ms = 200
    /\ lastOp = "vibrate" /\ ~sendErr

\* C14: the dispatch task holds the Settings mutex only while it copies
\* delay_ms (at no await: connect, scan, wait, receive, send, sleep,
\* disconnect), the capture callback only while it copies intensity and
\* threshold (not while filtering or sending), and no two contexts hold it
\* together.
C14_LockHeldOnlyWhileCopying ==
    /\ "dispatch" \in holders => dpc = "ReadDelay"
    /\ "capture" \in holders => cpc = "locked"
    /\ Cardinality(holders) <= 1

\* the dispatch task holds the mutex for its copy while a callback that has
\* released it is filtering
C14_Witness ==
    /\ holders = {"dispatch"} /\ dpc = "ReadDelay"
    /\ cpc = "filter"
    /\ guiUpdates > 0

\* C15: the session moves through Connecting, Scanning, Ready, Dispatching,
\* Disconnecting and its end in this order, one phase at a time (a fatal error
\* ends the run from where it is); inside Scanning the calls are start-scan,
\* the wait, stop-scan, then the device list; a vibrate command is sent only
\* from the loop, which is entered only after all of these and the device
\* selection; once disconnect has been called no other call is made.
Phase(pc) ==
    CASE pc = "Connecting" -> 1
      [] pc \in {"StartScan", "ScanWait", "StopScan", "Devices"} -> 2
      [] pc \in {"SelectDev", "Listed", "Prompt", "OpenAudio"} -> 3
      [] pc \in {"Recv", "Vibrate", "Sleep"} -> 4
      [] pc = "Disconnecting" -> 5
      [] OTHER -> 6
C15_SessionOrder ==
    /\ [][Phase(dpc') \in {Phase(dpc), Phase(dpc) + 1, 6}]_vars
    /\ [][(dpc' # dpc /\ Phase(dpc') = 6) =>
            \/ dpc' = "Returned" /\ result' # "none"
            \/ dpc' = "Panicked" /\ diag' # diag]_vars
    /\ [][(dpc' = "ScanWait" /\ dpc # "ScanWait") =>
            dpc = "StartScan" /\ lastOp = "start_scanning"]_vars
    /\ [][(dpc' = "StopScan" /\ dpc # "StopScan") => dpc = "ScanWait"]_vars
    /\ [][(dpc' = "Devices" /\ dpc # "Devices") =>
            dpc = "StopScan" /\ lastOp = "stop_scanning"]_vars
    /\ [][(dpc' = "SelectDev" /\ dpc # "SelectDev") => dpc = "Devices"]_vars
    /\ [][(dpc' = "Recv" /\ dpc # "Recv") => dpc \in {"OpenAudio", "Sleep"}]_vars
    /\ [][(lastOp' = "vibrate" /\ lastOp # "vibrate") =>
            dpc = "Recv" /\ lastOp = "stop_scanning"]_vars
    /\ [](lastOp = "vibrate" => Phase(dpc) >= 4)
    /\ [][disc # "none" => lastOp' = lastOp /\ Phase(dpc') >= 5]_vars

\* a whole session: commands were sent, one failed, the client disconnected
C15_Witness ==
    /\ dpc = "Returned" /\ result = "Ok" /\ disc = "ok"
    /\ lastOp = "disconnect" /\ sendErr
    /\ Len(received) > 1

SortedByName(l) ==
    \A i, j \in 1..Len(l) : i < j => ~LexLess(l[j].name, l[i].name)
C17_DeviceSelection ==
    /\ [](Alive /\ dpc \in {"Listed", "Prompt"} =>
            /\ SortedByName(devs)
            /\ \A i, j \in 1..Len(devs) : i # j => devs[i] # devs[j])
    /\ [](Alive /\ dpc = "Prompt" => Len(devs) > 1)
    /\ [][(dpc = "Listed" /\ Len(devs) = 1 /\ dpc' # dpc) =>
            /\ dpc' = "OpenAudio"
            /\ outDev' = devs[1]
            /\ input' = input /\ badInputs' = badInputs]_vars
    /\ [][(dpc = "Prompt" /\ dpc' # dpc) =>
            /\ dpc' = "OpenAudio"
            /\ \E index \in 0..(Len(devs) - 1) :
                /\ ParseUsize(Trim(input')) = {index}
                /\ outDev' = devs[index + 1]]_vars
    /\ [][(dpc = "Prompt" /\ dpc' = dpc /\ Alive') =>
            /\ devs' = devs /\ outDev' = NoDevice
            /\ input' # input => AcceptedIndex(input', Len(devs)) = {}]_vars
    /\ [](dpc = "Prompt" /\ Alive => ENABLED PromptGood)

\* " 1 \r\n" was accepted after a rejected line, and the device at index 1 of
\* the sorted list was returned
C17_Witness ==
    /\ dpc = "OpenAudio" /\ badInputs = 1
    /\ input = <<" ", "1", " ", "\r", "\n">>
    /\ outDev = [id |-> 3, name |-> <<66>>]

\* C18: the receive completes only when a sample is queued (or the channel is
\* closed); a cycle that computes a mean and sends a command has a batch of 1
\* to SAMPLE_LIMIT samples, freshly drained, and its mean is the sum divided by
\* the batch length (not the fallback); the batch gives one command: it stays
\* as it is until the next receive.
C18_CommandFromNonEmptyBatch ==
    /\ [](Alive /\ dpc = "Recv" /\ Len(chan) = 0 /\ ~ChanClosed =>
            ~ENABLED RecvMany)
    /\ [](Alive /\ dpc \in {"Vibrate", "Sleep"} =>
            /\ Len(collected_values) \in 1..SAMPLE_LIMIT
            /\ computed_intensity =
                 FMin(Frac(SumVals(collected_values), Len(collected_values)),
                      Frac(One, 1)))
    /\ [][(dpc' = "Vibrate" /\ dpc # "Vibrate") =>
            /\ dpc = "Recv" /\ Len(chan) > 0
            /\ Len(collected_values') \in 1..SAMPLE_LIMIT
            /\ received' = received \o Seqs(collected_values')
            /\ Len(chan') = Len(chan) - Len(collected_values')]_vars
    /\ [][(dpc \in {"Vibrate", "Sleep"} /\ dpc' \in {"Vibrate", "Sleep"} /\ Alive')
            => /\ collected_values' = collected_values
               /\ computed_intensity' = computed_intensity
               /\ received' = received
               /\ lastOp' = lastOp]_vars

\* a batch of one gated sample: the mean is 0/1 from a real batch, with nothing
\* left in the queue
C18_Witness ==
    /\ Alive /\ dpc = "Vibrate"
    /\ Len(collected_values) = 1 /\ collected_values[1].val = 0
    /\ computed_intensity = Frac(0, 1)
    /\ Len(chan) = 0

\* C19 (as stated): for every non-empty frame the magnitude of the last element
\* of the returned display frame equals the sample offered to the channel.
C19_DisplayEqualsScalar ==
    [][(cpc = "filter" /\ cpc' = "idle" /\ Len(frame) > 0) =>
        Abs(display'[Len(frame)]) =
            VibrationValue(frame, snap[1], snap[2])]_vars

\* C19 (amended): both paths work on the one copy of the settings taken by the
\* invocation and gate the last element alike (the display element is 0 when
\* the scalar is gated to 0, and 0 only when the scalar is 0); where not gated,
\* the scalar is |s| * intensity in f64 and the display element is s times
\* `intensity as f32` in f32, so the two magnitudes are equal when the f32
\* cast and product are exact and otherwise differ by the roundings (at most
\* one part in F32Limit / 10 of the scalar).
C19_DisplayFollowsScalar ==
    [][(cpc = "filter" /\ cpc' = "idle" /\ Len(frame) > 0) =>
        LET s == frame[Len(frame)]
            d == Abs(display'[Len(frame)])
            v == VibrationValue(frame, snap[1], snap[2])
            diff == IF d < v THEN v - d ELSE d - v
        IN /\ Abs(s) < snap[2] => (d = 0 /\ v = 0)
           /\ d = 0 => v = 0
           /\ Abs(s) >= snap[2] =>
                /\ v = Abs(s) * snap[1]
                /\ d = Abs(AsF32(s * AsF32(snap[1])))
           /\ (AsF32(snap[1]) = snap[1] /\ AsF32(v) = v) => d = v
           /\ diff * (F32Limit \div 10) <= v
           /\ Len(chan') > Len(chan) => chan'[Len(chan')].val = v]_vars

\* gain 100.1 is not an f32 of the model: an amplitude of 0.5 is queued as
\* 50.05 and displayed as 50.0
C19_Witness ==
    /\ cpc = "idle" /\ seqNo = 1
    /\ settings.intensity = 1001 /\ settings.threshold = 5
    /\ frame = <<500>>
    /\ display = <<500000>>
    /\ Len(chan) = 1 /\ chan[1].val = 500500

\* C20: every run of run_vibration_logic in which connect succeeded ends (by
\* return or by panic) with client.disconnect() having been called.
C20_EveryRunEndsWithDisconnect ==
    (dpc \in {"Returned", "Panicked"} /\ lastOp # "connect") => disc # "none"

====
